---- MODULE Spec2Model ----
(***************************************************************************)
(* Continuous-learning pipeline of the credit-risk repository: versioned   *)
(* training (ModelTrainer), gated validation (ModelValidator), deployment  *)
(* with backup, ledger and rollback (ModelDeployer) and the pipeline run   *)
(* (RetrainingScheduler.run_pipeline).                                     *)
(*                                                                         *)
(* The state is the content of the directories the code reads and writes.  *)
(* Metrics are integers in hundredths (0.70 is 70).  A file operation may  *)
(* fail; a failing write leaves its target as it was.  Every handler is    *)
(* one action; the faults of one call are the set F of the named steps     *)
(* that raise in it.                                                       *)
(***************************************************************************)
EXTENDS Integers, Sequences, FiniteSets, TLC

VARIABLES
    now,              \* wall clock, in seconds (datetime.now())
    new_files,        \* number of .csv batches in data/new
    versions,         \* models/versions/model_v{major}_{minor}.pkl
    metadata,         \* models/metadata/model_v{major}_{minor}.json
    active_model,     \* models/active/model.pkl
    active_metadata,  \* models/active/metadata.json
    backups,          \* models/active/{model,metadata}_backup_{timestamp}
    deployment_log,   \* logs/deployments.json
    call,             \* the last call made and what it returned
    faulty,           \* number of calls so far in which a step raised
    displaced,        \* version active before the most recent successful deployment
    new_dir,          \* data/new/{name}_{timestamp}.csv
    archive_dir,      \* data/archive/{name}_{timestamp}.csv
    master_dataset,   \* data/training/master_dataset.csv
    sample_data,      \* data/sample_data.csv
    ingested,         \* the batches store_new_data has stored, in arrival order
    runs              \* per process: the position of its run_pipeline call

\* the files of the DataManager, and what was ingested
dataVars == <<new_dir, archive_dir, master_dataset, sample_data, ingested>>

vars == <<now, new_files, versions, metadata, active_model, active_metadata,
          backups, deployment_log, call, faulty, displaced, dataVars, runs>>

----------------------------------------------------------------------------
(* Bounds of the model *)

MaxMinor == 1      \* version identifiers 1.0 .. 1.MaxMinor
MaxTime == 1       \* clock values 0 .. MaxTime
MaxLog == 4        \* a call starts only on a ledger shorter than this
MaxNewFiles == 1   \* pending batches
MaxFaulty == 1     \* calls in which a step raises
MaxStores == 2     \* batches ingested

----------------------------------------------------------------------------
(* Values *)

None == [none |-> TRUE]          \* Python None
NoFile == [nofile |-> TRUE]      \* a path at which no file exists

\* a version identifier "major.minor"
V(major, minor) == [major |-> major, minor |-> minor]
VersionIds == {V(1, m) : m \in 0..MaxMinor}
Times == 0..MaxTime

\* datetime.now().strftime(...): resolution of one second
Timestamp(t) == [sec |-> t]

\* predicted positive-class probabilities of a model on the held-out rows
SameProba == <<20, 60>>
FarProba == <<50, 70>>

Metrics(acc, auc) == [accuracy |-> acc, auc |-> auc]

\* what a training run can produce: the fitted model and its held-out metrics
TrainOutcomes ==
    { [proba |-> SameProba, metrics |-> Metrics(90, 90)],
      [proba |-> FarProba,  metrics |-> Metrics(60, 60)] }

\* the file system the deployer, trainer and validator work on
FS == [versions |-> versions, metadata |-> metadata,
       active_model |-> active_model, active_metadata |-> active_metadata,
       backups |-> backups, deployment_log |-> deployment_log]

\* the files of a call's result become the state
Install(fs) ==
    /\ versions' = fs.versions
    /\ metadata' = fs.metadata
    /\ active_model' = fs.active_model
    /\ active_metadata' = fs.active_metadata
    /\ backups' = fs.backups
    /\ deployment_log' = fs.deployment_log

\* the entries of a ledger file {'deployments': [...]}
Deployments(log) == IF log = NoFile THEN <<>> ELSE log.deployments

----------------------------------------------------------------------------
(* ModelDeployer *)

\* a bug: the ledger is written with the new entry alone
log_deployment_overwrite(fs, version, action, meta, t, fails) ==
    LET entry == [version |-> version, action |-> action,
                  timestamp |-> Timestamp(t),
                  metrics |-> IF meta # None THEN meta.metrics ELSE None]
    IN IF fails THEN fs
       ELSE [fs EXCEPT !.deployment_log = [deployments |-> <<entry>>]]

\* log_deployment: read-modify-write of logs/deployments.json, errors swallowed
log_deployment(fs, version, action, meta, t, fails) ==
    LET log == Deployments(fs.deployment_log)
        entry == [version |-> version, action |-> action,
                  timestamp |-> Timestamp(t),
                  metrics |-> IF meta # None THEN meta.metrics ELSE None]
    IN IF fails THEN fs
       ELSE [fs EXCEPT !.deployment_log = [deployments |-> Append(log, entry)]]

\* _backup_current_model: timestamped copies beside the active slot, errors swallowed
backup_current_model(fs, t, F) ==
    IF "backup_model" \in F THEN fs
    ELSE LET withModel == [fs EXCEPT !.backups[t].model = fs.active_model]
         IN IF fs.active_metadata = NoFile \/ "backup_metadata" \in F
            THEN withModel
            ELSE [withModel EXCEPT !.backups[t].metadata = fs.active_metadata]

\* a bug: the deployment date is not set
DeployedMetadata_NoDate(md, t) == [md EXCEPT !.deployed = TRUE]

\* the metadata of a version being deployed
DeployedMetadata(md, t) ==
    [md EXCEPT !.deployed = TRUE, !.deployment_date = Timestamp(t)]

\* a bug: the active model is backed up before the version is looked up
deploy_model_backup_first(fs, version, t, F) ==
    LET backed == IF fs.active_model # NoFile
                  THEN backup_current_model(fs, t, F) ELSE fs
        copied == [backed EXCEPT !.active_model = fs.versions[version]]
        meta == DeployedMetadata(fs.metadata[version], t)
        saved == [copied EXCEPT !.metadata[version] = meta]
        active == [saved EXCEPT !.active_metadata = meta]
        logged == log_deployment(active, version, "deployed", meta, t,
                                 "log_deployed" \in F)
    IN CASE version \notin DOMAIN fs.versions -> [fs |-> backed, ret |-> FALSE]
         [] fs.versions[version] = NoFile -> [fs |-> backed, ret |-> FALSE]
         [] fs.metadata[version] = NoFile -> [fs |-> backed, ret |-> FALSE]
         [] "copy_model" \in F -> [fs |-> backed, ret |-> FALSE]
         [] "read_metadata" \in F -> [fs |-> copied, ret |-> FALSE]
         [] "write_metadata" \in F -> [fs |-> copied, ret |-> FALSE]
         [] "write_active_metadata" \in F -> [fs |-> saved, ret |-> FALSE]
         [] OTHER -> [fs |-> logged, ret |-> TRUE]

\* deploy_model: [fs, ret]
deploy_model(fs, version, t, F) ==
    IF version \notin DOMAIN fs.versions
       \/ fs.versions[version] = NoFile \/ fs.metadata[version] = NoFile
    THEN [fs |-> fs, ret |-> FALSE]
    ELSE
    LET backed == IF fs.active_model # NoFile
                  THEN backup_current_model(fs, t, F) ELSE fs
        copied == [backed EXCEPT !.active_model = fs.versions[version]]
        meta == DeployedMetadata(fs.metadata[version], t)
        saved == [copied EXCEPT !.metadata[version] = meta]
        active == [saved EXCEPT !.active_metadata = meta]
        logged == log_deployment(active, version, "deployed", meta, t,
                                 "log_deployed" \in F)
    IN CASE "copy_model" \in F -> [fs |-> backed, ret |-> FALSE]
         [] "read_metadata" \in F -> [fs |-> copied, ret |-> FALSE]
         [] "write_metadata" \in F -> [fs |-> copied, ret |-> FALSE]
         [] "write_active_metadata" \in F -> [fs |-> saved, ret |-> FALSE]
         [] OTHER -> [fs |-> logged, ret |-> TRUE]

\* a bug: the last ledger entry is taken, on a ledger of one entry or more
get_previous_version_last(fs, F) ==
    IF fs.deployment_log = NoFile \/ "read_log" \in F THEN None
    ELSE LET deployments == fs.deployment_log.deployments
         IN IF Len(deployments) >= 1
            THEN deployments[Len(deployments)].version
            ELSE None

\* _get_previous_version
get_previous_version(fs, F) ==
    IF fs.deployment_log = NoFile \/ "read_log" \in F THEN None
    ELSE LET deployments == fs.deployment_log.deployments
         IN IF Len(deployments) >= 2
            THEN deployments[Len(deployments) - 1].version
            ELSE None

\* rollback_model: [fs, ret, target]
rollback_model(fs, target_version, t, F) ==
    LET target == IF target_version = None
                  THEN get_previous_version(fs, F) ELSE target_version
    IN IF target = None THEN [fs |-> fs, ret |-> FALSE, target |-> target]
       ELSE LET d == deploy_model(fs, target, t, F)
            IN IF d.ret
               THEN [fs |-> log_deployment(d.fs, target, "rollback", None, t,
                                           "log_rollback" \in F),
                     ret |-> TRUE, target |-> target]
               ELSE [fs |-> d.fs, ret |-> FALSE, target |-> target]

\* the steps of a call that can raise
DeployFaults == {"backup_model", "backup_metadata", "copy_model", "read_metadata",
                 "write_metadata", "write_active_metadata", "log_deployed"}
RollbackFaults == DeployFaults \cup {"read_log", "log_rollback"}

\* the faults of one call: none, or one step raising
FaultSets(points) == {{}} \cup {{p} : p \in points}

\* a call with faults F counts as a faulty call
Faulty(F) ==
    /\ F # {} => faulty < MaxFaulty
    /\ faulty' = IF F # {} THEN faulty + 1 ELSE faulty

\* version recorded in the active slot (None when the slot has no metadata)
ActiveVersion(fs) ==
    IF fs.active_metadata = NoFile THEN None ELSE fs.active_metadata.version

\* the version that was active before the most recent successful deployment
Displaced(fs, deployed) == IF deployed THEN ActiveVersion(fs) ELSE displaced

----------------------------------------------------------------------------
(* ModelTrainer *)

\* versions with an artifact in models/versions, as _get_next_version parses them
PersistedVersions(fs) == {v \in DOMAIN fs.versions : fs.versions[v] # NoFile}

\* max() of (major, minor) tuples
LatestVersion(vs) ==
    CHOOSE v \in vs : \A w \in vs :
        w.major < v.major \/ (w.major = v.major /\ w.minor <= v.minor)

\* _get_next_version: any error while listing falls back to "1.0"
get_next_version(fs, F) ==
    IF "listdir" \in F THEN V(1, 0)
    ELSE IF PersistedVersions(fs) = {} THEN V(1, 0)
    ELSE LET latest == LatestVersion(PersistedVersions(fs))
         IN V(latest.major, latest.minor + 1)

\* save_model_version: the artifact first, then its metadata record
save_model_version(fs, outcome, version, t, F) ==
    LET dumped == [fs EXCEPT !.versions[version] = [proba |-> outcome.proba]]
        record == [version |-> version, training_date |-> Timestamp(t),
                   metrics |-> outcome.metrics, deployed |-> FALSE,
                   deployment_date |-> None]
    IN CASE "dump_model" \in F -> [fs |-> fs, raised |-> TRUE]
         [] "write_version_metadata" \in F -> [fs |-> dumped, raised |-> TRUE]
         [] OTHER -> [fs |-> [dumped EXCEPT !.metadata[version] = record],
                      raised |-> FALSE]

\* a bug: the version is saved before the model is fitted
train_model_saved_first(fs, outcome, t, F) ==
    LET version == get_next_version(fs, F)
        saved == save_model_version(fs, outcome, version, t, F)
    IN IF "fit" \in F \/ saved.raised
       THEN [fs |-> saved.fs, raised |-> TRUE, version |-> None, metrics |-> None]
       ELSE [fs |-> saved.fs, raised |-> FALSE,
             version |-> version, metrics |-> outcome.metrics]

\* train_model: [fs, raised, version, metrics]; an exception is re-raised
train_model(fs, outcome, t, F) ==
    LET version == get_next_version(fs, F)
        saved == save_model_version(fs, outcome, version, t, F)
    IN IF "fit" \in F
       THEN [fs |-> fs, raised |-> TRUE, version |-> None, metrics |-> None]
       ELSE [fs |-> saved.fs, raised |-> saved.raised,
             version |-> IF saved.raised THEN None ELSE version,
             metrics |-> IF saved.raised THEN None ELSE outcome.metrics]

TrainFaults == {"fit", "listdir", "dump_model", "write_version_metadata"}

\* str(e) of the exception train_model raises: the step that raised ("fit":
\* the split, the fit or the computation of the metrics)
train_error(F) ==
    CASE "fit" \in F -> "fit"
      [] "dump_model" \in F -> "dump_model"
      [] OTHER -> "write_version_metadata"

----------------------------------------------------------------------------
(* ModelValidator *)

min_accuracy == 70
min_auc == 65
max_accuracy_drop == 5
max_drift_threshold == 15
drift_on_error == 100

\* IEEE-754 doubles.  A metric written h (hundredths) is the double nearest to
\* h/100; FloatError[h + 1] is that double minus h/100, in units of
\* 2^-59 / 100 (0.75 is exact, the double 0.8 is above 0.8, 0.05 above 0.05).
FloatError ==
    <<     0,    12,    24,   -64,    48,   160,  -128,   384,    96,  -192,
         320,    32,  -256,   256,   768,  -320,   192,   704,  -384,   128,
         640,  -448,    64,   576,  -512,     0,   512,  1024,  1536, -1152,
        -640,  -128,   384,   896,  1408, -1280,  -768,  -256,   256,   768,
        1280, -1408,  -896,  -384,   128,   640,  1152, -1536, -1024,  -512,
           0,   512,  1024,  1536,  2048,  2560,  3072, -2816, -2304, -1792,
       -1280,  -768,  -256,   256,   768,  1280,  1792,  2304,  2816, -3072,
       -2560, -2048, -1536, -1024,  -512,     0,   512,  1024,  1536,  2048,
        2560,  3072, -2816, -2304, -1792, -1280,  -768,  -256,   256,   768,
        1280,  1792,  2304,  2816, -3072, -2560, -2048, -1536, -1024,  -512,
           0 >>

\* the double nearest to h/100, as [h, e]: its value is h/100 + e * 2^-59 / 100
Float(h) == [h |-> h, e |-> FloatError[h + 1]]

\* x - y on doubles: exact when the operands are within a factor of two of each
\* other, and otherwise rounded by less than any difference in h
Minus(x, y) == [h |-> x.h - y.h, e |-> x.e - y.e]

Negated(x) == [h |-> -x.h, e |-> -x.e]

\* x >= y on doubles (|e| is far below one hundredth)
AtLeast(x, y) == x.h > y.h \/ (x.h = y.h /\ x.e >= y.e)

Abs(x) == IF x < 0 THEN -x ELSE x

RECURSIVE SumAbsDiff(_, _)
SumAbsDiff(p, q) ==
    IF p = <<>> THEN 0
    ELSE Abs(Head(p) - Head(q)) + SumAbsDiff(Tail(p), Tail(q))

\* a bug: a failed drift computation counts as no drift
check_drift_zero_on_error(new_model, current_model, fails) ==
    IF fails THEN 0
    ELSE SumAbsDiff(new_model.proba, current_model.proba) \div Len(new_model.proba)

\* check_drift: mean absolute difference of the two models' probabilities on
\* the same rows, in hundredths (for the probability vectors of this model the
\* double the code computes compares with 0.15 as the hundredths do); 1.0 when
\* the computation raises
check_drift(new_model, current_model, fails) ==
    IF fails THEN drift_on_error
    ELSE SumAbsDiff(new_model.proba, current_model.proba) \div Len(new_model.proba)

\* a bug: a version that is not found is replaced by the active model
load_model_version_fallback(fs, version) ==
    IF version \in DOMAIN fs.versions
       /\ fs.versions[version] # NoFile /\ fs.metadata[version] # NoFile
    THEN [model |-> fs.versions[version], metadata |-> fs.metadata[version]]
    ELSE IF fs.active_model # NoFile /\ fs.active_metadata # NoFile
    THEN [model |-> fs.active_model, metadata |-> fs.active_metadata]
    ELSE [model |-> None, metadata |-> None]

\* _load_model_version: [model, metadata], both None unless both files exist
load_model_version(fs, version) ==
    IF version \in DOMAIN fs.versions
       /\ fs.versions[version] # NoFile /\ fs.metadata[version] # NoFile
    THEN [model |-> fs.versions[version], metadata |-> fs.metadata[version]]
    ELSE [model |-> None, metadata |-> None]

\* _load_active_model: [model, metadata], both None unless both files exist
load_active_model(fs) ==
    IF fs.active_model # NoFile /\ fs.active_metadata # NoFile
    THEN [model |-> fs.active_model, metadata |-> fs.active_metadata]
    ELSE [model |-> None, metadata |-> None]

\* the reasons appended for the checks that failed, in the order of the code
Reasons(flags) ==
    LET R(i) == IF flags[i][1] THEN <<flags[i][2]>> ELSE <<>>
    IN R(1) \o R(2) \o R(3) \o R(4) \o R(5) \o R(6)

\* a bug: the minimum accuracy is compared with > instead of >=
ValidationChecks_StrictAccuracy(new_accuracy, new_auc, compared, accuracy_diff, auc_diff, drift_score) ==
    [min_accuracy |-> new_accuracy > min_accuracy,
     min_auc |-> new_auc >= min_auc,
     accuracy_improvement |->
         IF compared
         THEN AtLeast(accuracy_diff, Negated(Float(max_accuracy_drop)))
         ELSE TRUE,
     auc_improvement |-> IF compared THEN AtLeast(auc_diff, Float(0)) ELSE TRUE,
     drift_acceptable |->
         IF compared THEN drift_score < max_drift_threshold ELSE TRUE]

\* report['checks']: the five checks of validate_model
ValidationChecks(new_accuracy, new_auc, compared, accuracy_diff, auc_diff, drift_score) ==
    [min_accuracy |-> new_accuracy >= min_accuracy,
     min_auc |-> new_auc >= min_auc,
     accuracy_improvement |->
         IF compared
         THEN AtLeast(accuracy_diff, Negated(Float(max_accuracy_drop)))
         ELSE TRUE,
     auc_improvement |-> IF compared THEN AtLeast(auc_diff, Float(0)) ELSE TRUE,
     drift_acceptable |->
         IF compared THEN drift_score < max_drift_threshold ELSE TRUE]

\* validate_model: [ret, report]
validate_model(fs, new_model_version, F) ==
    LET new == IF "load_version" \in F THEN [model |-> None, metadata |-> None]
               ELSE load_model_version(fs, new_model_version)
        current == IF "load_active" \in F THEN [model |-> None, metadata |-> None]
                   ELSE load_active_model(fs)
        new_accuracy == new.metadata.metrics.accuracy
        new_auc == new.metadata.metrics.auc
        compared == current.model # None /\ current.metadata # None
        accuracy_diff ==
            Minus(Float(new_accuracy), Float(current.metadata.metrics.accuracy))
        auc_diff == Minus(Float(new_auc), Float(current.metadata.metrics.auc))
        drift_score == check_drift(new.model, current.model, "drift" \in F)
        checks == ValidationChecks(new_accuracy, new_auc, compared,
                                   accuracy_diff, auc_diff, drift_score)
        all_checks_passed == \A c \in DOMAIN checks : checks[c]
        reason == Reasons(<<
            <<~checks.min_accuracy, "accuracy_below_minimum">>,
            <<~checks.min_auc, "auc_below_minimum">>,
            <<compared /\ ~checks.accuracy_improvement, "accuracy_dropped">>,
            <<compared /\ ~checks.drift_acceptable, "drift_exceeds_threshold">>,
            <<~compared, "no_current_model">>,
            <<all_checks_passed, "all_checks_passed">> >>)
    IN IF new.model = None
       THEN [ret |-> FALSE, report |-> [error |-> "New model not found"]]
       ELSE [ret |-> all_checks_passed,
             report |->
               [new_version |-> new_model_version,
                current_version |->
                    IF current.metadata # None THEN current.metadata.version
                    ELSE None,
                checks |-> checks,
                drift_score |-> IF compared THEN drift_score ELSE None,
                recommendation |->
                    IF all_checks_passed THEN "DEPLOY" ELSE "REJECT",
                reason |-> reason]]

\* "load_version", "load_active": reading the files raises inside
\* _load_model_version, _load_active_model, which then return (None, None)
ValidateFaults == {"drift", "load_version", "load_active"}

----------------------------------------------------------------------------
(* RetrainingScheduler *)

\* a dict with key k set to v
Put(d, k, v) == [x \in DOMAIN d \cup {k} |-> IF x = k THEN v ELSE d[x]]

\* a bug: a run that finds no batch trains a model before it returns
run_pipeline_trains_when_skipped(fs, pending, outcome, t, F) ==
    LET report0 == [timestamp |-> Timestamp(t), success |-> FALSE,
                    new_files_found |-> pending]
        merged == Put(report0, "data_merged", TRUE)
        left == IF "archive" \in F THEN pending ELSE 0
        tr == train_model(fs, outcome, t, F)
        trained == Put(Put(Put(merged, "model_trained", TRUE),
                           "new_version", tr.version), "metrics", tr.metrics)
        val == validate_model(tr.fs, tr.version, F)
        validated == Put(trained, "validation", val.report)
        dep == deploy_model(tr.fs, tr.version, t, F)
        deployed == Put(Put(validated, "deployed", dep.ret), "success", dep.ret)
        rejected == Put(Put(validated, "deployed", FALSE), "rejection_reason",
                        IF "reason" \in DOMAIN val.report
                        THEN val.report.reason ELSE <<>>)
    IN CASE pending = 0 ->
              [fs |-> tr.fs, new_files |-> pending, deploy_called |-> FALSE,
               report |-> Put(report0, "status", "skipped")]
         [] pending > 0 /\ "merge" \in F ->
              [fs |-> fs, new_files |-> pending, deploy_called |-> FALSE,
               report |-> Put(report0, "error", "merge")]
         [] pending > 0 /\ "merge" \notin F /\ tr.raised ->
              [fs |-> tr.fs, new_files |-> left, deploy_called |-> FALSE,
               report |-> Put(merged, "error", train_error(F))]
         [] pending > 0 /\ "merge" \notin F /\ ~tr.raised /\ val.ret ->
              [fs |-> dep.fs, new_files |-> left, deploy_called |-> TRUE,
               report |-> deployed]
         [] OTHER ->
              [fs |-> tr.fs, new_files |-> left, deploy_called |-> FALSE,
               report |-> rejected]

\* a bug: the candidate is deployed whatever validate_model returned
run_pipeline_deploys_unvalidated(fs, pending, outcome, t, F) ==
    LET report0 == [timestamp |-> Timestamp(t), success |-> FALSE,
                    new_files_found |-> pending]
        merged == Put(report0, "data_merged", TRUE)
        left == IF "archive" \in F THEN pending ELSE 0
        tr == train_model(fs, outcome, t, F)
        trained == Put(Put(Put(merged, "model_trained", TRUE),
                           "new_version", tr.version), "metrics", tr.metrics)
        val == validate_model(tr.fs, tr.version, F)
        validated == Put(trained, "validation", val.report)
        dep == deploy_model(tr.fs, tr.version, t, F)
        deployed == Put(Put(validated, "deployed", dep.ret), "success", dep.ret)
        rejected == Put(Put(validated, "deployed", FALSE), "rejection_reason",
                        IF "reason" \in DOMAIN val.report
                        THEN val.report.reason ELSE <<>>)
    IN CASE pending = 0 ->
              [fs |-> fs, new_files |-> pending, deploy_called |-> FALSE,
               report |-> Put(report0, "status", "skipped")]
         [] pending > 0 /\ "merge" \in F ->
              [fs |-> fs, new_files |-> pending, deploy_called |-> FALSE,
               report |-> Put(report0, "error", "merge")]
         [] pending > 0 /\ "merge" \notin F /\ tr.raised ->
              [fs |-> tr.fs, new_files |-> left, deploy_called |-> FALSE,
               report |-> Put(merged, "error", train_error(F))]
         [] pending > 0 /\ "merge" \notin F /\ ~tr.raised ->
              [fs |-> dep.fs, new_files |-> left, deploy_called |-> TRUE,
               report |-> deployed]
         [] OTHER ->
              [fs |-> tr.fs, new_files |-> left, deploy_called |-> FALSE,
               report |-> rejected]

\* run_pipeline: [fs, new_files, report]; deploy_called tells whether the run
\* called deploy_model
run_pipeline(fs, pending, outcome, t, F) ==
    LET report0 == [timestamp |-> Timestamp(t), success |-> FALSE,
                    new_files_found |-> pending]
        merged == Put(report0, "data_merged", TRUE)
        left == IF "archive" \in F THEN pending ELSE 0
        tr == train_model(fs, outcome, t, F)
        trained == Put(Put(Put(merged, "model_trained", TRUE),
                           "new_version", tr.version), "metrics", tr.metrics)
        val == validate_model(tr.fs, tr.version, F)
        validated == Put(trained, "validation", val.report)
        dep == deploy_model(tr.fs, tr.version, t, F)
        deployed == Put(Put(validated, "deployed", dep.ret), "success", dep.ret)
        rejected == Put(Put(validated, "deployed", FALSE), "rejection_reason",
                        IF "reason" \in DOMAIN val.report
                        THEN val.report.reason ELSE <<>>)
    IN CASE pending = 0 ->
              [fs |-> fs, new_files |-> pending, deploy_called |-> FALSE,
               report |-> Put(report0, "status", "skipped")]
         [] pending > 0 /\ "merge" \in F ->
              [fs |-> fs, new_files |-> pending, deploy_called |-> FALSE,
               report |-> Put(report0, "error", "merge")]
         [] pending > 0 /\ "merge" \notin F /\ tr.raised ->
              [fs |-> tr.fs, new_files |-> left, deploy_called |-> FALSE,
               report |-> Put(merged, "error", train_error(F))]
         [] pending > 0 /\ "merge" \notin F /\ ~tr.raised /\ val.ret ->
              [fs |-> dep.fs, new_files |-> left, deploy_called |-> TRUE,
               report |-> deployed]
         [] OTHER ->
              [fs |-> tr.fs, new_files |-> left, deploy_called |-> FALSE,
               report |-> rejected]

PipelineFaults ==
    {"merge", "archive"} \cup TrainFaults \cup ValidateFaults \cup DeployFaults

----------------------------------------------------------------------------
(* DataManager *)

\* a missing value of a DataFrame (no value of the data is negative)
NaN == -1

\* a row: the identifier and one critical column
Row(id, limit) == [customer_id |-> id, credit_limit |-> limit]
Rows == {Row(id, limit) : id \in {1, 2}, limit \in {1, 2, NaN}}

\* the contents a batch can have: one row, or two rows (same or distinct ids)
Batches ==
    {<<r>> : r \in Rows}
        \cup {<<Row(1, 1), Row(1, 2)>>, <<Row(2, 2), Row(1, 1)>>}

\* a DataFrame as a file holds it, and as a call returns it
Csv(df) == [rows |-> df]

\* names suggested to store_new_data, as os.path.splitext splits them (None:
\* no name given)
SuggestedNames == {None, [name |-> "a", ext |-> ".csv"], [name |-> "b", ext |-> ".csv"]}

\* a file name {name}_{timestamp}.csv
FileName(name, t) == [name |-> name, ts |-> t]
FileNames == {FileName(n, t) : n \in {"a", "b", "upload"}, t \in Times}

\* store_new_data's file name: upload_{timestamp}.csv or {name}_{timestamp}{ext}
StoredName(filename, t) ==
    IF filename = None THEN FileName("upload", t) ELSE FileName(filename.name, t)

\* sorted() of paths: the order of the strings "{name}_{timestamp}.csv", the
\* timestamp %Y%m%d_%H%M%S being of fixed width
NameRank == [a |-> 1, b |-> 2, upload |-> 3]
PathBefore(f, g) ==
    \/ NameRank[f.name] < NameRank[g.name]
    \/ f.name = g.name /\ f.ts < g.ts

RECURSIVE SortedPaths(_)
SortedPaths(S) ==
    IF S = {} THEN <<>>
    ELSE LET first == CHOOSE f \in S : \A g \in S \ {f} : PathBefore(f, g)
         IN <<first>> \o SortedPaths(S \ {first})

\* the files of the DataManager
DS == [new_dir |-> new_dir, archive_dir |-> archive_dir,
       master_dataset |-> master_dataset, sample_data |-> sample_data]

InstallData(ds) ==
    /\ new_dir' = ds.new_dir
    /\ archive_dir' = ds.archive_dir
    /\ master_dataset' = ds.master_dataset
    /\ sample_data' = ds.sample_data

\* a .csv file of zero bytes, which pd.read_csv refuses (EmptyDataError)
EmptyCsv == [no_columns |-> TRUE]

\* store_new_data: [ds, raised, path]; an exception is re-raised, and the file
\* to_csv had opened when it raised ("to_csv_empty") stays in data/new
store_new_data(ds, rows, filename, t, F) ==
    LET path == StoredName(filename, t)
    IN CASE "to_csv" \in F -> [ds |-> ds, raised |-> TRUE, path |-> None]
         [] "to_csv_empty" \in F ->
              [ds |-> [ds EXCEPT !.new_dir[path] = EmptyCsv],
               raised |-> TRUE, path |-> None]
         [] OTHER -> [ds |-> [ds EXCEPT !.new_dir[path] = Csv(rows)],
                      raised |-> FALSE, path |-> path]

\* get_new_files: the .csv files of data/new, sorted by path; [] on an error
get_new_files(ds, F) ==
    IF "listdir_new" \in F THEN <<>>
    ELSE SortedPaths({f \in FileNames : ds.new_dir[f] # NoFile})

\* the rows of df at the positions I, in the order of df
Take(df, I) ==
    LET T[i \in 0..Len(df)] ==
            IF i = 0 THEN <<>>
            ELSE IF i \in I THEN Append(T[i - 1], df[i]) ELSE T[i - 1]
    IN T[Len(df)]

\* a bug: the first row of each identifier is kept
drop_duplicates_keep_first(df) ==
    Take(df, {i \in 1..Len(df) :
                \A j \in 1..(i - 1) : df[j].customer_id # df[i].customer_id})

\* df.drop_duplicates(subset=['customer_id'], keep='last')
drop_duplicates(df) ==
    Take(df, {i \in 1..Len(df) :
                \A j \in (i + 1)..Len(df) : df[j].customer_id # df[i].customer_id})

\* df.dropna(subset=critical_columns)
dropna(df) ==
    Take(df, {i \in 1..Len(df) :
                df[i].customer_id # NaN /\ df[i].credit_limit # NaN})

\* df.sort_values('customer_id')
RECURSIVE sort_values(_)
sort_values(df) ==
    IF df = <<>> THEN <<>>
    ELSE LET i == CHOOSE k \in 1..Len(df) :
                    \A j \in 1..Len(df) :
                        \/ df[k].customer_id < df[j].customer_id
                        \/ df[k].customer_id = df[j].customer_id /\ k <= j
         IN <<df[i]>> \o sort_values(Take(df, (1..Len(df)) \ {i}))

\* _clean_data: deduplicate, then drop the rows with missing values, then sort
clean_data(df) == sort_values(dropna(drop_duplicates(df)))

\* pd.concat of the frames read from the files, in the order of the list
RECURSIVE Concat(_, _)
Concat(dir, files) ==
    IF files = <<>> THEN <<>>
    ELSE dir[Head(files)].rows \o Concat(dir, Tail(files))

\* _archive_processed_files: moves the files in order; an error ends the loop
\* and is swallowed ("archive_k": the move of the k-th file raises)
RECURSIVE archive_processed_files(_, _, _, _)
archive_processed_files(ds, files, k, F) ==
    IF files = <<>> \/ (k = 1 /\ "archive_1" \in F) \/ (k = 2 /\ "archive_2" \in F)
    THEN ds
    ELSE LET f == Head(files)
             moved == [ds EXCEPT !.archive_dir[f] = ds.new_dir[f],
                                 !.new_dir[f] = NoFile]
         IN archive_processed_files(moved, Tail(files), k + 1, F)

\* what to_csv leaves in a file it opened (and so truncated) when a write
\* raises before the last row: the rows written so far
Partial(df) == SubSeq(df, 1, Len(df) - 1)

\* a bug: the sample data is returned without being saved as master
get_training_data_unsaved(ds, F) ==
    CASE ds.master_dataset # NoFile ->
            [ds |-> ds, raised |-> "read_master" \in F,
             ret |-> IF "read_master" \in F THEN None ELSE ds.master_dataset]
      [] ds.master_dataset = NoFile /\ ds.sample_data # NoFile ->
            [ds |-> ds, raised |-> "read_sample" \in F,
             ret |-> IF "read_sample" \in F THEN None ELSE ds.sample_data]
      [] OTHER -> [ds |-> ds, raised |-> FALSE, ret |-> Csv(<<>>)]

\* get_training_data: [ds, raised, ret]; the master dataset, else the sample
\* data (saved as master), else an empty frame
get_training_data(ds, F) ==
    CASE ds.master_dataset # NoFile ->
            IF "read_master" \in F
            THEN [ds |-> ds, raised |-> TRUE, ret |-> None]
            ELSE [ds |-> ds, raised |-> FALSE, ret |-> ds.master_dataset]
      [] ds.master_dataset = NoFile /\ ds.sample_data # NoFile ->
            IF "read_sample" \in F \/ "write_master" \in F
            THEN [ds |-> ds, raised |-> TRUE, ret |-> None]
            ELSE IF "write_master_partial" \in F
            THEN [ds |-> [ds EXCEPT !.master_dataset =
                                       Csv(Partial(ds.sample_data.rows))],
                  raised |-> TRUE, ret |-> None]
            ELSE [ds |-> [ds EXCEPT !.master_dataset = ds.sample_data],
                  raised |-> FALSE, ret |-> ds.sample_data]
      [] OTHER -> [ds |-> ds, raised |-> FALSE, ret |-> Csv(<<>>)]

\* merge_and_clean_data: [ds, raised, ret, new_files]; an exception is re-raised
merge_and_clean_data(ds, F) ==
    LET files == get_new_files(ds, F)
        training == get_training_data(ds, F)
        master_df ==
            IF ds.master_dataset # NoFile THEN ds.master_dataset.rows ELSE <<>>
        new_df == Concat(ds.new_dir, files)
        combined_df == clean_data(master_df \o new_df)
        saved == [ds EXCEPT !.master_dataset = Csv(combined_df)]
    IN CASE files = <<>> ->
              [ds |-> training.ds, raised |-> training.raised,
               ret |-> training.ret, new_files |-> files]
         [] /\ files # <<>>
            /\ \/ ds.master_dataset # NoFile /\ "read_master" \in F
               \/ "read_batch" \in F
               \/ \E i \in 1..Len(files) : ds.new_dir[files[i]] = EmptyCsv
               \/ "write_master" \in F ->
              [ds |-> ds, raised |-> TRUE, ret |-> None, new_files |-> files]
         [] files # <<>> /\ "write_master_partial" \in F ->
              [ds |-> [ds EXCEPT !.master_dataset = Csv(Partial(combined_df))],
               raised |-> TRUE, ret |-> None, new_files |-> files]
         [] OTHER ->
              [ds |-> archive_processed_files(saved, files, 1, F),
               raised |-> FALSE, ret |-> Csv(combined_df), new_files |-> files]

\* "to_csv": to_csv raises when it opens the file
StoreFaults == {"to_csv"}
\* "to_csv_empty": to_csv raises after it has opened the file, nothing written
IngestFaults == StoreFaults \cup {"to_csv_empty"}
\* "write_master": to_csv raises when it opens the file; "write_master_partial":
\* it raises while it writes the rows
MergeFaults == {"listdir_new", "read_master", "read_sample", "read_batch",
                "write_master", "write_master_partial", "archive_1", "archive_2"}

----------------------------------------------------------------------------
(* Initial states *)

NoBackup == [model |-> NoFile, metadata |-> NoFile]

\* the processes that call run_pipeline, and a process that is in no call
Procs == {1, 2}
Idle == [pc |-> "idle", version |-> None, outcome |-> None]

InitEmpty ==
    /\ versions = [v \in VersionIds |-> NoFile]
    /\ metadata = [v \in VersionIds |-> NoFile]
    /\ active_model = NoFile
    /\ active_metadata = NoFile
    /\ deployment_log = NoFile

InitialMetadata ==
    [version |-> V(1, 0), training_date |-> Timestamp(0),
     metrics |-> Metrics(87, 89), deployed |-> TRUE,
     deployment_date |-> Timestamp(0)]

InitInitialized ==
    /\ versions = [v \in VersionIds |->
                     IF v = V(1, 0) THEN [proba |-> SameProba] ELSE NoFile]
    /\ metadata = [v \in VersionIds |->
                     IF v = V(1, 0) THEN InitialMetadata ELSE NoFile]
    /\ active_model = [proba |-> SameProba]
    /\ active_metadata = InitialMetadata
    /\ deployment_log =
         [deployments |-> << [version |-> V(1, 0), action |-> "deployed",
                              timestamp |-> Timestamp(0),
                              metrics |-> InitialMetadata.metrics] >>]

\* what is the same in every initial state
InitRest ==
    /\ now = 0
    /\ new_files = 0
    /\ backups = [t \in Times |-> NoBackup]
    /\ call = [op |-> "init"]
    /\ faulty = 0
    /\ displaced = None
    /\ runs = [p \in Procs |-> Idle]

\* no data file: the pipeline actions take the pending batches as a number
InitNoData ==
    /\ new_dir = [f \in FileNames |-> NoFile]
    /\ archive_dir = [f \in FileNames |-> NoFile]
    /\ master_dataset = NoFile
    /\ sample_data = NoFile
    /\ ingested = <<>>

\* the installation initialize_system leaves: 1.0 active, one ledger entry
Init == InitRest /\ InitInitialized /\ InitNoData

\* the installation before initialize_system ran: empty directories
InitFresh == InitRest /\ InitEmpty /\ InitNoData

----------------------------------------------------------------------------
(* Actions *)

Tick ==
    /\ now < MaxTime
    /\ now' = now + 1
    /\ call' = [op |-> "tick"]
    /\ UNCHANGED <<new_files, versions, metadata, active_model, active_metadata,
                   backups, deployment_log, faulty, displaced, dataVars, runs>>

Deploy(version, F) ==
    /\ Len(Deployments(deployment_log)) < MaxLog
    /\ LET r == deploy_model(FS, version, now, F)
       IN /\ Install(r.fs)
          /\ call' = [op |-> "deploy", version |-> version, ret |-> r.ret]
          /\ displaced' = Displaced(FS, r.ret)
    /\ Faulty(F)
    /\ UNCHANGED <<now, new_files, dataVars, runs>>

Rollback(target_version, F) ==
    /\ Len(Deployments(deployment_log)) < MaxLog
    /\ LET r == rollback_model(FS, target_version, now, F)
       IN /\ Install(r.fs)
          /\ call' = [op |-> "rollback", version |-> target_version,
                      target |-> r.target, ret |-> r.ret]
          /\ displaced' = Displaced(FS, r.ret)
    /\ Faulty(F)
    /\ UNCHANGED <<now, new_files, dataVars, runs>>

\* DataManager.store_new_data: one more batch in data/new
StoreNewData ==
    /\ new_files < MaxNewFiles
    /\ new_files' = new_files + 1
    /\ call' = [op |-> "store_new_data"]
    /\ UNCHANGED <<now, versions, metadata, active_model, active_metadata,
                   backups, deployment_log, faulty, displaced, dataVars, runs>>

RunPipeline(outcome, F) ==
    /\ Len(Deployments(deployment_log)) < MaxLog
    /\ new_files = 0 \/ "fit" \in F \/ get_next_version(FS, F) \in VersionIds
    /\ LET r == run_pipeline(FS, new_files, outcome, now, F)
       IN /\ Install(r.fs)
          /\ new_files' = r.new_files
          /\ call' = [op |-> "run_pipeline", report |-> r.report,
                      deploy_called |-> r.deploy_called]
          /\ displaced' = Displaced(FS, r.report.success)
    /\ Faulty(F)
    /\ UNCHANGED <<now, dataVars, runs>>

Next ==
    \/ Tick
    \/ StoreNewData
    \/ \E o \in TrainOutcomes, F \in FaultSets(PipelineFaults) : RunPipeline(o, F)
    \/ \E v \in VersionIds, F \in FaultSets(DeployFaults) : Deploy(v, F)
    \/ \E v \in VersionIds \cup {None}, F \in FaultSets(RollbackFaults) :
          Rollback(v, F)

Spec == Init /\ [][Next]_vars

SpecFresh == InitFresh /\ [][Next]_vars

----------------------------------------------------------------------------
(* The validator alone: validate_model applied to every installation drawn   *)
(* from the sets below (a candidate 1.1, and an active slot that is empty,   *)
(* complete, or holds only one of its two files)                             *)

CandidateAccuracies == {60, 69, 70, 74, 75, 80}
CandidateAucs == {60, 64, 65, 70, 80}
CandidateProbas == {<<20, 60>>, <<34, 74>>, <<35, 75>>, <<50, 70>>}
ActiveAccuracies == {70, 80}
ActiveAucs == {60, 70}

ActiveRecords ==
    { [version |-> V(1, 0), training_date |-> Timestamp(0),
       metrics |-> Metrics(acc, auc), deployed |-> TRUE,
       deployment_date |-> Timestamp(0)] :
      acc \in ActiveAccuracies, auc \in ActiveAucs }

CandidateRecords ==
    { [version |-> V(1, 1), training_date |-> Timestamp(0),
       metrics |-> Metrics(acc, auc), deployed |-> FALSE,
       deployment_date |-> None] :
      acc \in CandidateAccuracies, auc \in CandidateAucs }

InitValidator ==
    /\ now = 0
    /\ new_files = 0
    /\ backups = [t \in Times |-> NoBackup]
    /\ call = [op |-> "init"]
    /\ faulty = 0
    /\ displaced = None
    /\ runs = [p \in Procs |-> Idle]
    /\ InitNoData
    /\ deployment_log = NoFile
    /\ active_model \in {NoFile, [proba |-> SameProba]}
    /\ active_metadata \in {NoFile} \cup ActiveRecords
    /\ \E p \in CandidateProbas, c \in CandidateRecords, old \in {NoFile, [proba |-> SameProba]} :
          /\ versions = [v \in VersionIds |->
                           IF v = V(1, 1) THEN [proba |-> p] ELSE old]
          /\ metadata = [v \in VersionIds |-> IF v = V(1, 1) THEN c ELSE NoFile]

Validate(version, F) ==
    /\ LET r == validate_model(FS, version, F)
       IN call' = [op |-> "validate_model", version |-> version,
                   ret |-> r.ret, report |-> r.report]
    /\ UNCHANGED <<now, new_files, versions, metadata, active_model,
                   active_metadata, backups, deployment_log, faulty, displaced,
                   dataVars, runs>>

NextValidator ==
    \E v \in VersionIds, F \in FaultSets(ValidateFaults) : Validate(v, F)

SpecValidator == InitValidator /\ [][NextValidator]_vars

----------------------------------------------------------------------------
(* The DataManager alone: batches are ingested and merged into the corpus    *)

\* the sample data shipped with the installation, when there is one
SampleData == <<Row(1, 1), Row(2, NaN)>>

InitData ==
    /\ InitRest /\ InitEmpty
    /\ new_dir = [f \in FileNames |-> NoFile]
    /\ archive_dir = [f \in FileNames |-> NoFile]
    /\ master_dataset \in {NoFile, Csv(<<Row(1, 1), Row(2, 1)>>)}
    /\ sample_data \in {NoFile, Csv(SampleData)}
    /\ ingested = <<>>

StoreNewDataFile(rows, filename, F) ==
    /\ Len(ingested) < MaxStores
    /\ LET r == store_new_data(DS, rows, filename, now, F)
       IN /\ InstallData(r.ds)
          /\ ingested' = IF r.raised THEN ingested
                         ELSE Append(ingested, [path |-> r.path, rows |-> rows])
          /\ call' = [op |-> "store_new_data", raised |-> r.raised,
                      path |-> r.path]
    /\ Faulty(F)
    /\ UNCHANGED <<now, new_files, versions, metadata, active_model,
                   active_metadata, backups, deployment_log, displaced, runs>>

MergeAndCleanData(F) ==
    /\ LET r == merge_and_clean_data(DS, F)
       IN /\ InstallData(r.ds)
          /\ call' = [op |-> "merge_and_clean_data", raised |-> r.raised,
                      ret |-> r.ret, new_files |-> r.new_files]
    /\ Faulty(F)
    /\ UNCHANGED <<now, new_files, versions, metadata, active_model,
                   active_metadata, backups, deployment_log, displaced, ingested,
                   runs>>

NextData ==
    \/ Tick
    \/ \E rows \in Batches, n \in SuggestedNames, F \in FaultSets(StoreFaults) :
          StoreNewDataFile(rows, n, F)
    \/ \E F \in FaultSets(MergeFaults) : MergeAndCleanData(F)

SpecData == InitData /\ [][NextData]_vars

----------------------------------------------------------------------------
(* The pipeline over the files of the DataManager: run_pipeline with its     *)
(* listing of data/new and its merge made by get_new_files and               *)
(* merge_and_clean_data, on the installation initialize_system leaves        *)

\* a third training outcome: good enough alone, a lower AUC than the active model
PipelineOutcomes ==
    TrainOutcomes \cup {[proba |-> SameProba, metrics |-> Metrics(88, 80)]}

PipelineBatches == {<<Row(1, 2)>>, <<Row(2, NaN)>>}

\* "listdir_new": the listing made by run_pipeline raises; "listdir_merge": the
\* listing made by merge_and_clean_data raises
PipelineDataFaults ==
    {"listdir_merge"} \cup MergeFaults \cup TrainFaults \cup ValidateFaults
        \cup DeployFaults

\* the stages a run has called, as its report tells
Stages(report) ==
    CASE "validation" \in DOMAIN report /\ "deployed" \in DOMAIN report
           /\ "rejection_reason" \notin DOMAIN report ->
              <<"merge", "train", "validate", "deploy">>
      [] "validation" \in DOMAIN report -> <<"merge", "train", "validate">>
      [] "data_merged" \in DOMAIN report -> <<"merge", "train">>
      [] "error" \in DOMAIN report -> <<"merge">>
      [] OTHER -> <<>>

\* the faults as merge_and_clean_data meets them: its own listing of data/new
\* raises under "listdir_merge", not under "listdir_new"
merge_faults(F) ==
    (F \ {"listdir_new"}) \cup (IF "listdir_merge" \in F THEN {"listdir_new"} ELSE {})

\* what the rest of the run meets after the merge m: a merge that raised, a
\* fit that raises on an empty frame, or the faults F
met_after_merge(m, F) ==
    CASE m.raised -> {"merge"}
      [] ~m.raised /\ m.ret.rows = <<>> -> {"fit"}
      [] OTHER -> F

\* report['steps']['total_rows'] = len(df), set once the merge has returned
pipeline_report(m, p) ==
    IF "data_merged" \in DOMAIN p.report
    THEN Put(p.report, "total_rows", Len(m.ret.rows))
    ELSE p.report

\* the outcome of a run from the listing found, the merge m and the remaining
\* stages p; trained_on is the frame given to train_model (None when it was
\* not called)
pipeline_result(ds, found, m, p) ==
    [fs |-> p.fs,
     ds |-> IF found = <<>> THEN ds ELSE m.ds,
     report |-> pipeline_report(m, p),
     deploy_called |-> p.deploy_called,
     trained_on |-> IF "data_merged" \in DOMAIN p.report THEN m.ret ELSE None]

\* the stages of run_pipeline that follow the merge
pipeline_after_merge(fs, ds, found, m, outcome, t, F) ==
    pipeline_result(ds, found, m,
                    run_pipeline(fs, Len(found), outcome, t, met_after_merge(m, F)))

\* run_pipeline on the files: [fs, ds, report, deploy_called, trained_on]
run_pipeline_on(fs, ds, outcome, t, F) ==
    pipeline_after_merge(fs, ds, get_new_files(ds, F),
                         merge_and_clean_data(ds, merge_faults(F)), outcome, t, F)

\* initialize_system copies the sample data, when there is one, to the master
InitPipeline ==
    /\ InitRest /\ InitInitialized
    /\ new_dir = [f \in FileNames |-> NoFile]
    /\ archive_dir = [f \in FileNames |-> NoFile]
    /\ sample_data \in {NoFile, Csv(SampleData)}
    /\ master_dataset = sample_data
    /\ ingested = <<>>

RunPipelineOn(outcome, F) ==
    /\ Faulty(F)
    /\ Len(Deployments(deployment_log)) < MaxLog
    /\ \E r \in {run_pipeline_on(FS, DS, outcome, now, F)} :
          /\ "new_version" \in DOMAIN r.report => r.report.new_version \in VersionIds
          /\ Install(r.fs)
          /\ InstallData(r.ds)
          /\ call' = [op |-> "run_pipeline", report |-> r.report,
                      deploy_called |-> r.deploy_called,
                      stages |-> Stages(r.report), trained_on |-> r.trained_on]
          /\ displaced' = Displaced(FS, r.report.success)
    /\ UNCHANGED <<now, new_files, ingested, runs>>

\* scripts/retrain_manual.py, main: [pipeline_runs, raised, reported]. It prints
\* the two headers and then reads report['timestamp'], a name that is bound
\* nowhere: NameError, raised before any RetrainingScheduler is built
retrain_manual_main ==
    [pipeline_runs |-> 0, raised |-> TRUE, reported |-> None]

RetrainManual ==
    /\ call' = [op |-> "retrain_manual",
                pipeline_runs |-> retrain_manual_main.pipeline_runs,
                raised |-> retrain_manual_main.raised,
                reported |-> retrain_manual_main.reported]
    /\ UNCHANGED <<now, new_files, versions, metadata, active_model,
                   active_metadata, backups, deployment_log, faulty, displaced,
                   dataVars, runs>>

NextPipeline ==
    \/ Tick
    \/ RetrainManual
    \/ \E rows \in PipelineBatches, F \in FaultSets(StoreFaults) :
          StoreNewDataFile(rows, None, F)
    \/ \E o \in PipelineOutcomes, F \in FaultSets(PipelineDataFaults) :
          RunPipelineOn(o, F)

SpecPipeline == InitPipeline /\ [][NextPipeline]_vars

----------------------------------------------------------------------------
(* Two processes calling run_pipeline on the same directories: each call     *)
(* advances one stage at a time, the stages of the two calls interleaving    *)
(* (no step raises; the pending batches are counted, as in Spec)             *)

\* the statements kept for every step of a process
StepFrame == UNCHANGED <<now, faulty, dataVars>>

\* run_pipeline, lines 36-54: the report is created and data/new is listed; the
\* call returns at once when it finds no batch
Begin(p) ==
    /\ runs[p].pc = "idle"
    /\ runs' = [runs EXCEPT ![p] = IF new_files = 0 THEN Idle
                                   ELSE [Idle EXCEPT !.pc = "merge"]]
    /\ call' = [op |-> "begin", proc |-> p, new_files_found |-> new_files]
    /\ UNCHANGED <<new_files, versions, metadata, active_model, active_metadata,
                   backups, deployment_log, displaced>>
    /\ StepFrame

\* line 59: merge_and_clean_data merges and archives what is pending now
MergeStep(p) ==
    /\ runs[p].pc = "merge"
    /\ new_files' = 0
    /\ runs' = [runs EXCEPT ![p].pc = "train"]
    /\ call' = [op |-> "merge", proc |-> p]
    /\ UNCHANGED <<versions, metadata, active_model, active_metadata, backups,
                   deployment_log, displaced>>
    /\ StepFrame

\* train_model up to _get_next_version: the model is fitted and the version
\* number after the latest stored one is chosen
FitStep(p, outcome) ==
    /\ runs[p].pc = "train"
    /\ get_next_version(FS, {}) \in VersionIds
    /\ runs' = [runs EXCEPT ![p] = [pc |-> "save", outcome |-> outcome,
                                    version |-> get_next_version(FS, {})]]
    /\ call' = [op |-> "fit", proc |-> p]
    /\ UNCHANGED <<new_files, versions, metadata, active_model, active_metadata,
                   backups, deployment_log, displaced>>
    /\ StepFrame

\* train_model, save_model_version: the artifact and the metadata are written
\* under the version chosen
SaveStep(p) ==
    /\ runs[p].pc = "save"
    /\ Install(save_model_version(FS, runs[p].outcome, runs[p].version, now, {}).fs)
    /\ runs' = [runs EXCEPT ![p].pc = "validate"]
    /\ call' = [op |-> "save", proc |-> p]
    /\ UNCHANGED <<new_files, displaced>>
    /\ StepFrame

\* lines 76-80 and 97-100: validate_model; a rejected candidate ends the call
ValidateStep(p) ==
    /\ runs[p].pc = "validate"
    /\ LET val == validate_model(FS, runs[p].version, {})
       IN /\ runs' = [runs EXCEPT ![p].pc = IF val.ret THEN "deploy" ELSE "idle"]
          /\ call' = [op |-> "validate", proc |-> p, ret |-> val.ret]
    /\ UNCHANGED <<new_files, versions, metadata, active_model, active_metadata,
                   backups, deployment_log, displaced>>
    /\ StepFrame

\* lines 83-95: deploy_model, and the call returns
DeployStep(p) ==
    /\ runs[p].pc = "deploy"
    /\ Len(Deployments(deployment_log)) < MaxLog
    /\ LET r == deploy_model(FS, runs[p].version, now, {})
       IN /\ Install(r.fs)
          /\ call' = [op |-> "deploy_step", proc |-> p, ret |-> r.ret]
          /\ displaced' = Displaced(FS, r.ret)
    /\ runs' = [runs EXCEPT ![p].pc = "idle"]
    /\ UNCHANGED new_files
    /\ StepFrame

\* store_new_data: one more batch in data/new
StoreStep ==
    /\ new_files < MaxNewFiles
    /\ new_files' = new_files + 1
    /\ call' = [op |-> "store_new_data"]
    /\ UNCHANGED <<versions, metadata, active_model, active_metadata, backups,
                   deployment_log, displaced, runs>>
    /\ StepFrame

NextConcurrent ==
    \/ StoreStep
    \/ \E p \in Procs : Begin(p)
    \/ \E p \in Procs : MergeStep(p)
    \/ \E p \in Procs, o \in PipelineOutcomes : FitStep(p, o)
    \/ \E p \in Procs : SaveStep(p)
    \/ \E p \in Procs : ValidateStep(p)
    \/ \E p \in Procs : DeployStep(p)

SpecConcurrent == Init /\ [][NextConcurrent]_vars

----------------------------------------------------------------------------
(* Claims about the validator (checked under SpecValidator) *)

\* the last call was a validation whose candidate was loaded
Validated == call.op = "validate_model" /\ "checks" \in DOMAIN call.report

ActiveComplete == active_model # NoFile /\ active_metadata # NoFile
\* the active model and its metadata were loaded by the last validation
ActiveLoaded == call.report.current_version # None
ActiveEmpty == active_model = NoFile /\ active_metadata = NoFile

CandidateMetrics == metadata[call.version].metrics

Range(q) == {q[i] : i \in DOMAIN q}

\* C1: with a complete active model and a candidate, both loaded, validation returns
\* DEPLOY exactly when all five conditions hold: accuracy >= 0.70, AUC >= 0.65,
\* accuracy delta >= -0.05, AUC delta >= 0 and measured drift < 0.15 (the
\* metrics being the decimal values of the metadata records, in hundredths).
C1_DeployIffFiveChecks ==
    (Validated /\ ActiveComplete /\ ActiveLoaded) =>
        ( (call.ret /\ call.report.recommendation = "DEPLOY")
          <=> /\ CandidateMetrics.accuracy >= 70
              /\ CandidateMetrics.auc >= 65
              /\ CandidateMetrics.accuracy - active_metadata.metrics.accuracy >= -5
              /\ CandidateMetrics.auc - active_metadata.metrics.auc >= 0
              /\ call.report.drift_score < 15 )

\* C2: with an empty active slot, validation returns DEPLOY exactly when
\* accuracy >= 0.70 and AUC >= 0.65; the comparative and drift checks are
\* recorded as passed, and an accuracy below 0.70 is rejected with the
\* accuracy-threshold reason whatever the AUC.
C2_EmptySlotThresholdsOnly ==
    (Validated /\ ActiveEmpty) =>
        /\ call.ret <=> (CandidateMetrics.accuracy >= 70 /\ CandidateMetrics.auc >= 65)
        /\ call.report.recommendation = (IF call.ret THEN "DEPLOY" ELSE "REJECT")
        /\ call.report.checks.accuracy_improvement
        /\ call.report.checks.auc_improvement
        /\ call.report.checks.drift_acceptable
        /\ CandidateMetrics.accuracy < 70 =>
              /\ ~call.ret
              /\ "accuracy_below_minimum" \in Range(call.report.reason)

\* C2 witness: no active model, accuracy 0.60 with a passing AUC, rejected
C2_Witness ==
    /\ Validated /\ ActiveEmpty
    /\ CandidateMetrics.accuracy = 60 /\ CandidateMetrics.auc = 80
    /\ ~call.ret

\* the reason that cites each check
ReasonCiting ==
    [min_accuracy |-> "accuracy_below_minimum",
     min_auc |-> "auc_below_minimum",
     accuracy_improvement |-> "accuracy_dropped",
     auc_improvement |-> "auc_dropped",
     drift_acceptable |-> "drift_exceeds_threshold"]

\* C3: a REJECT after the candidate was loaded lists one reason for every
\* failing check (minimum accuracy, minimum AUC, accuracy regression, AUC
\* regression, drift).
C3_EveryFailingCheckHasReason ==
    (Validated /\ ~call.ret) =>
        \A c \in DOMAIN call.report.checks :
            ~call.report.checks[c] => ReasonCiting[c] \in Range(call.report.reason)

----------------------------------------------------------------------------
(* Claims about the deployer and the pipeline (checked under Spec) *)

\* the version a call deployed successfully, None when it deployed nothing
DeployedBy(c) ==
    CASE c.op = "deploy" -> IF c.ret THEN c.version ELSE None
      [] c.op = "rollback" -> IF c.ret THEN c.target ELSE None
      [] c.op = "run_pipeline" ->
            IF c.report.success THEN c.report.new_version ELSE None
      [] OTHER -> None

Recommends(c, r) ==
    /\ "validation" \in DOMAIN c.report
    /\ "recommendation" \in DOMAIN c.report.validation
    /\ c.report.validation.recommendation = r

IsPrefix(p, q) == Len(p) <= Len(q) /\ SubSeq(q, 1, Len(p)) = p

\* C4: run_pipeline calls the deployer exactly when validation returned DEPLOY;
\* on REJECT the run has persisted exactly one new version, appended no ledger
\* entry and left the active slot as it was.
C4_DeployOnlyOnDeploy ==
    [][ (call'.op = "run_pipeline" /\ "validation" \in DOMAIN call'.report) =>
          /\ call'.deploy_called <=> Recommends(call', "DEPLOY")
          /\ Recommends(call', "REJECT") =>
                /\ \E v \in VersionIds :
                      /\ versions[v] = NoFile /\ metadata[v] = NoFile
                      /\ versions'[v] # NoFile /\ metadata'[v] # NoFile
                      /\ \A w \in VersionIds \ {v} :
                            versions'[w] = versions[w] /\ metadata'[w] = metadata[w]
                /\ deployment_log' = deployment_log
                /\ active_model' = active_model
                /\ active_metadata' = active_metadata ]_vars

\* C5: after a successful deploy over an existing active model, the artifact
\* that was active is held, with its content, by a backup file.
C5_BackupHoldsPreviousActive ==
    [][ (DeployedBy(call') # None /\ active_model # NoFile) =>
          \E t \in Times : backups'[t].model = active_model ]_vars

\* C6: after deploy(v) returns success the active slot holds v's artifact, the
\* active metadata and v's record are equal with deployed = true and a non-null
\* deployment date, and no other field of v's record has changed.
C6_DeployInstallsVersion ==
    [][ DeployedBy(call') # None =>
          LET v == DeployedBy(call')
          IN /\ active_model' = versions'[v]
             /\ active_metadata' = metadata'[v]
             /\ metadata'[v].deployed = TRUE
             /\ metadata'[v].deployment_date # None
             /\ call'.op # "run_pipeline" =>
                   metadata'[v] =
                       [metadata[v] EXCEPT
                          !.deployed = TRUE,
                          !.deployment_date = metadata'[v].deployment_date] ]_vars

\* C6 witness: a deploy call succeeded and replaced another active version
C6_Witness ==
    /\ call.op = "deploy" /\ call.ret
    /\ active_metadata # NoFile /\ active_metadata.version = call.version
    /\ displaced # None /\ displaced # call.version

\* C7: a deploy or rollback that returns failure leaves the active artifact
\* and the active metadata as they were.
C7_FailedDeployKeepsActiveSlot ==
    [][ (call'.op \in {"deploy", "rollback"} /\ ~call'.ret) =>
          (active_model' = active_model /\ active_metadata' = active_metadata)
      ]_vars

\* C8: when deploy(v) returns true, the ledger has grown in the call by exactly
\* the entry {v, deployed, timestamp, v's metrics}.
C8_SuccessHasLedgerEntry ==
    [][ (call'.op = "deploy" /\ call'.ret) =>
          Deployments(deployment_log)' =
              Append(Deployments(deployment_log),
                     [version |-> call'.version, action |-> "deployed",
                      timestamp |-> Timestamp(now),
                      metrics |-> metadata[call'.version].metrics]) ]_vars

C10_RollbackRestoresPrevious ==
    [][ ( /\ call'.op = "rollback" /\ call'.version = None /\ call'.ret
          /\ Len(Deployments(deployment_log)) >= 2
          /\ faulty' = 0 ) =>
          ActiveVersion(FS') = displaced ]_vars

----------------------------------------------------------------------------
(* Claims about rollback (checked under SpecFresh, where the ledger starts   *)
(* absent)                                                                   *)

\* the target of the rollback call c has no artifact or no metadata record
TargetMissing(c) ==
    c.version # None /\ (versions[c.version] = NoFile \/ metadata[c.version] = NoFile)

\* C11: rollback() with the ledger absent or shorter than two entries, and
\* rollback(target) with the target's artifact or metadata missing, return
\* false and leave the active slot, the version records and the ledger unchanged.
C11_RollbackWithoutTargetFails ==
    [][ ( /\ call'.op = "rollback"
          /\ \/ call'.version = None /\ Len(Deployments(deployment_log)) < 2
             \/ TargetMissing(call') ) =>
          /\ ~call'.ret
          /\ active_model' = active_model /\ active_metadata' = active_metadata
          /\ versions' = versions /\ metadata' = metadata
          /\ deployment_log' = deployment_log ]_vars

\* C11 witness: a rollback without target has failed on an absent ledger while
\* a model is active
C11_Witness ==
    /\ call.op = "rollback" /\ call.version = None /\ ~call.ret
    /\ deployment_log = NoFile /\ active_model # NoFile

\* the ledger entries appended by the step
Appended ==
    SubSeq(Deployments(deployment_log)', Len(Deployments(deployment_log)) + 1,
           Len(Deployments(deployment_log)'))

\* C12: a successful rollback to version t appends exactly two ledger entries,
\* in this order: {t, deployed, t's metrics} and {t, rollback, null metrics};
\* a failed rollback appends no rollback entry.
C12_RollbackAppendsTwoEntries ==
    [][ call'.op = "rollback" =>
          IF call'.ret
          THEN Appended =
                 << [version |-> call'.target, action |-> "deployed",
                     timestamp |-> Timestamp(now),
                     metrics |-> metadata[call'.target].metrics],
                    [version |-> call'.target, action |-> "rollback",
                     timestamp |-> Timestamp(now), metrics |-> None] >>
          ELSE \A i \in DOMAIN Appended : Appended[i].action # "rollback" ]_vars

----------------------------------------------------------------------------
(* Claims about the DataManager (checked under SpecData) *)

\* the step is a merge that returned after processing at least one batch
Merged ==
    /\ call'.op = "merge_and_clean_data" /\ ~call'.raised
    /\ call'.new_files # <<>>

\* the rows the merge was given: the corpus, then the batches in the order
\* in which the merge processed them
MergeInput ==
    (IF master_dataset = NoFile THEN <<>> ELSE master_dataset.rows)
        \o Concat(new_dir, call'.new_files)

\* position k holds the last row of its identifier in df
IsLast(df, k) == \A m \in (k + 1)..Len(df) : df[m].customer_id # df[k].customer_id

Valid(r) == r.customer_id # NaN /\ r.credit_limit # NaN

\* C13: after a merge that processed at least one batch the corpus holds one
\* row per identifier, and the row it holds for an identifier is the last one
\* of that identifier in (corpus, then batches in processing order).
C13_DedupKeepsLast ==
    [][ Merged =>
          LET out == master_dataset'.rows
          IN /\ \A i, j \in DOMAIN out :
                   out[i].customer_id = out[j].customer_id => i = j
             /\ \A i \in DOMAIN out :
                   \E k \in DOMAIN MergeInput :
                       MergeInput[k] = out[i] /\ IsLast(MergeInput, k)
             /\ \A k \in DOMAIN MergeInput :
                   (IsLast(MergeInput, k) /\ Valid(MergeInput[k])) =>
                       MergeInput[k] \in Range(out) ]_vars

\* C13 witness: a merge has processed two batches with the same identifier and
\* different values, for an identifier the corpus had; the corpus holds the
\* value of the batch processed second
C13_Witness ==
    /\ call.op = "merge_and_clean_data" /\ ~call.raised
    /\ Len(call.new_files) = 2
    /\ archive_dir[call.new_files[1]] = Csv(<<Row(1, 1)>>)
    /\ archive_dir[call.new_files[2]] = Csv(<<Row(1, 2)>>)
    /\ master_dataset = Csv(<<Row(1, 2), Row(2, 1)>>)

\* the position in arrival order of the batch stored at path f
Arrival(f) ==
    CHOOSE i \in DOMAIN ingested :
        ingested[i].path = f
            /\ \A j \in DOMAIN ingested : ingested[j].path = f => j <= i

\* C14: the pending batches are processed in arrival order whatever the names
\* suggested: a batch ingested before another one precedes it in the merge.
C14_ProcessedInArrivalOrder ==
    [][ Merged =>
          \A p, q \in DOMAIN call'.new_files :
              p < q => Arrival(call'.new_files[p]) < Arrival(call'.new_files[q])
      ]_vars

\* the step is a merge that returned, made with no batch pending
NoPendingMerge ==
    /\ call'.op = "merge_and_clean_data" /\ ~call'.raised
    /\ \A f \in FileNames : new_dir[f] = NoFile

\* C15 as stated: with no pending batch the merge leaves the persisted corpus,
\* the pending area and the archive unchanged, also when no corpus has been
\* persisted yet.
C15_NoPendingMergeIsNoOp ==
    [][ NoPendingMerge =>
          /\ master_dataset' = master_dataset
          /\ new_dir' = new_dir
          /\ archive_dir' = archive_dir ]_vars

\* C15 amended: with no pending batch the merge leaves the pending area and the
\* archive unchanged and returns the persisted corpus, unchanged, when there is
\* one; when there is none it saves the sample data as the corpus and returns
\* it (an empty frame, and nothing saved, when there is no sample data either);
\* a second such call returns the same corpus and changes nothing.
C15_NoPendingMergeKeepsOrSeeds ==
    [][ NoPendingMerge =>
          /\ new_dir' = new_dir
          /\ archive_dir' = archive_dir
          /\ sample_data' = sample_data
          /\ CASE master_dataset # NoFile ->
                    master_dataset' = master_dataset /\ call'.ret = master_dataset
               [] master_dataset = NoFile /\ sample_data # NoFile ->
                    master_dataset' = sample_data /\ call'.ret = sample_data
               [] OTHER ->
                    master_dataset' = NoFile /\ call'.ret = Csv(<<>>)
          /\ (call.op = "merge_and_clean_data" /\ ~call.raised) =>
                (call'.ret = call.ret /\ master_dataset' = master_dataset) ]_vars

\* C15 witness: a merge with no pending batch has saved the sample data as the
\* corpus
C15_Witness ==
    /\ call.op = "merge_and_clean_data" /\ ~call.raised
    /\ call.new_files = <<>>
    /\ \A f \in FileNames : new_dir[f] = NoFile
    /\ master_dataset = Csv(SampleData) /\ call.ret = Csv(SampleData)

\* the directory called "new" or "archive"
Dir(d) == IF d = "new" THEN new_dir ELSE archive_dir

\* every ingested batch is a file of the pending area or of the archive,
\* two batches being two files
EveryBatchKept ==
    \E loc \in [DOMAIN ingested -> {"new", "archive"}] :
        /\ \A i \in DOMAIN ingested :
              Dir(loc[i])[ingested[i].path] = Csv(ingested[i].rows)
        /\ \A i, j \in DOMAIN ingested :
              (i # j /\ ingested[i].path = ingested[j].path) => loc[i] # loc[j]

\* the merge of this step has moved every batch it consumed to the archive
ConsumedArchived ==
    \A i \in DOMAIN call'.new_files :
        LET f == call'.new_files[i]
        IN archive_dir'[f] = new_dir[f] /\ new_dir'[f] = NoFile

\* C16: after a merge that consumed batches and in which no step failed, every
\* consumed batch is in the archive and none is pending; and after every
\* ingest or merge each ingested batch is in the pending area or in the
\* archive (moved, never deleted).
C16_BatchesMovedNeverLost ==
    [][ /\ (Merged /\ faulty' = faulty) => ConsumedArchived
        /\ EveryBatchKept' ]_vars

----------------------------------------------------------------------------
(* Claims about the trainer (checked under Spec) *)

\* the step is a pipeline run whose training returned a version
Trained == call'.op = "run_pipeline" /\ "new_version" \in DOMAIN call'.report

\* C17: a training call that returns a version returns (highest persisted
\* minor of the highest major) + 1 with the same major, 1.0 when nothing is
\* persisted, and no training call writes under a version identifier that
\* already has a persisted artifact or metadata record.
C17_VersionsNeverOverwritten ==
    [][ /\ Trained =>
             LET v == call'.report.new_version
                 persisted == {w \in VersionIds : versions[w] # NoFile}
             IN /\ \/ persisted = {} /\ v = V(1, 0)
                   \/ \E w \in persisted :
                        /\ \A x \in persisted :
                              x.major < w.major
                                  \/ (x.major = w.major /\ x.minor <= w.minor)
                        /\ v = V(w.major, w.minor + 1)
                /\ versions[v] = NoFile /\ metadata[v] = NoFile
        /\ call'.op = "run_pipeline" =>
             \A v \in VersionIds :
                 versions'[v] # versions[v] => versions[v] = NoFile ]_vars

\* C18: when the split, the fit or the metric computation fails during train,
\* the pipeline run ends with the error in its report, the version store (and
\* every other file) as it was, and neither validation nor deployment made.
C18_FailedFitPersistsNothing ==
    new_files > 0 =>
        \A o \in TrainOutcomes :
            LET t == train_model(FS, o, now, {"fit"})
                r == run_pipeline(FS, new_files, o, now, {"fit"})
            IN /\ t.raised /\ t.fs = FS
               /\ r.fs = FS
               /\ "error" \in DOMAIN r.report /\ r.report.error = "fit"
               /\ ~r.report.success
               /\ "new_version" \notin DOMAIN r.report
               /\ "validation" \notin DOMAIN r.report
               /\ ~r.deploy_called

\* C18 witness: a pipeline run has ended with the error of a failed fit while
\* a version other than the active one is persisted
C18_Witness ==
    /\ call.op = "run_pipeline"
    /\ "error" \in DOMAIN call.report /\ call.report.error = "fit"
    /\ ~call.deploy_called
    /\ \E v \in VersionIds : versions[v] # NoFile /\ v # ActiveVersion(FS)

\* C19: when the artifact or the metadata of the version to validate is absent,
\* or cannot be loaded, validate_model returns False with a report that holds
\* the error "New model not found" and nothing else: no check is evaluated,
\* no recommendation to deploy is made, and nothing is raised.
C19_MissingCandidateIsRejected ==
    \A v \in VersionIds, F \in FaultSets(ValidateFaults) :
        (versions[v] = NoFile \/ metadata[v] = NoFile \/ "load_version" \in F) =>
            LET r == validate_model(FS, v, F)
            IN /\ r.ret = FALSE
               /\ DOMAIN r.report = {"error"}
               /\ r.report.error = "New model not found"

\* C19 witness: a version whose artifact is stored without its metadata has
\* been validated while an active model is in place
C19_Witness ==
    /\ call.op = "validate_model"
    /\ versions[call.version] # NoFile /\ metadata[call.version] = NoFile
    /\ active_model # NoFile /\ active_metadata # NoFile
    /\ call.ret = FALSE /\ DOMAIN call.report = {"error"}

\* C20: when the active artifact exists but the active metadata is missing or
\* cannot be read, validate_model of a stored version returns False with an
\* explicit reason (an error, or the recommendation REJECT): the version is
\* never recommended for deployment without the comparison with the active model.
C20_BrokenIncumbentIsRejected ==
    \A v \in VersionIds, F \in FaultSets(ValidateFaults) :
        (/\ active_model # NoFile
         /\ active_metadata = NoFile \/ "load_active" \in F
         /\ versions[v] # NoFile /\ metadata[v] # NoFile) =>
            LET r == validate_model(FS, v, F)
            IN /\ r.ret = FALSE
               /\ \/ "error" \in DOMAIN r.report
                  \/ r.report.recommendation = "REJECT"

----------------------------------------------------------------------------
(* Claims about failures and the pipeline run *)

\* C21: deploy_model of a version whose artifact or metadata record is missing
\* returns False and changes nothing: no backup is written, and the active
\* slot, the version records and the ledger are as before.
C21_DeployOfMissingVersionChangesNothing ==
    [][ (/\ call'.op = "deploy"
         /\ versions[call'.version] = NoFile \/ metadata[call'.version] = NoFile)
        => /\ call'.ret = FALSE
           /\ UNCHANGED <<versions, metadata, active_model, active_metadata,
                          backups, deployment_log>> ]_vars

\* C21 witness: a version stored without its metadata record was deployed
\* over an active model, and the deployment failed
C21_Witness ==
    /\ call.op = "deploy" /\ call.ret = FALSE
    /\ versions[call.version] # NoFile /\ metadata[call.version] = NoFile
    /\ active_model # NoFile
    /\ \A t \in Times : backups[t] = NoBackup

\* C22: a pipeline run that finds no pending batch returns a report with the
\* status "skipped" and does nothing else: no stage is called, and the corpus,
\* the pending and archived batches, the version store, the active slot, the
\* backups and the ledger are as before.
C22_NoPendingBatchSkips ==
    [][ (call'.op = "run_pipeline" /\ call'.report.new_files_found = 0)
        => /\ "status" \in DOMAIN call'.report
           /\ call'.report.status = "skipped"
           /\ ~call'.report.success
           /\ "error" \notin DOMAIN call'.report
           /\ call'.stages = <<>>
           /\ ~call'.deploy_called
           /\ UNCHANGED <<master_dataset, new_dir, archive_dir, versions,
                          metadata, active_model, active_metadata, backups,
                          deployment_log>> ]_vars

\* C22 witness: a run was skipped after an earlier run had merged a batch
C22_Witness ==
    /\ call.op = "run_pipeline"
    /\ "status" \in DOMAIN call.report /\ call.report.status = "skipped"
    /\ \E f \in FileNames : archive_dir[f] # NoFile
    /\ master_dataset # NoFile

\* C23: the report of every pipeline run is a success, or is marked skipped,
\* or holds a non-empty list of rejection reasons, or holds a top-level error.
C23_ReportTellsTheOutcome ==
    call.op = "run_pipeline" =>
        \/ call.report.success
        \/ "status" \in DOMAIN call.report /\ call.report.status = "skipped"
        \/ "rejection_reason" \in DOMAIN call.report
              /\ call.report.rejection_reason # <<>>
        \/ "error" \in DOMAIN call.report

\* C24: a pipeline run calls merge, train, validate and deploy in this order,
\* each at most once and each only after the one before it completed: training
\* is given the corpus this run's merge left, validation is made for the version
\* trained, against the model active before the run, and deployment follows a
\* validation that said DEPLOY; whichever stage fails, the run returns the
\* report accumulated so far, with the error of a stage that raised.
C24_StagesInOrder ==
    [][ call'.op = "run_pipeline" =>
        LET r == call'.report
            has(stage) == \E i \in 1..Len(call'.stages) : call'.stages[i] = stage
        IN /\ IsPrefix(call'.stages, <<"merge", "train", "validate", "deploy">>)
           /\ {"timestamp", "new_files_found", "success"} \subseteq DOMAIN r
           /\ has("merge") <=> r.new_files_found > 0
           /\ has("train") <=> "data_merged" \in DOMAIN r
           /\ has("train") =>
                 /\ call'.trained_on # None
                 /\ master_dataset' # NoFile => call'.trained_on = master_dataset'
                 /\ master_dataset' = NoFile => call'.trained_on = Csv(<<>>)
           /\ has("validate") <=> "model_trained" \in DOMAIN r
           /\ has("validate") =>
                 /\ versions'[r.new_version] # NoFile
                 /\ "checks" \in DOMAIN r.validation =>
                       /\ r.validation.new_version = r.new_version
                       /\ r.validation.current_version \in {ActiveVersion(FS), None}
                       /\ faulty' = faulty =>
                             r.validation.current_version = ActiveVersion(FS)
           /\ has("deploy") <=> call'.deploy_called
           /\ has("deploy") =>
                 /\ "checks" \in DOMAIN r.validation
                 /\ r.validation.recommendation = "DEPLOY"
                 /\ r.success = r.deployed
           /\ (call'.stages \in {<<"merge">>, <<"merge", "train">>})
                 <=> "error" \in DOMAIN r
           /\ ~has("deploy") => ~r.success ]_vars

\* C24 witness: a run went through the four stages and replaced the active
\* version by the one it trained on the corpus it merged
C24_Witness ==
    /\ call.op = "run_pipeline"
    /\ call.stages = <<"merge", "train", "validate", "deploy">>
    /\ call.report.success
    /\ call.report.validation.current_version = V(1, 0)
    /\ ActiveVersion(FS) = V(1, 1)
    /\ call.trained_on = master_dataset
    /\ \E i \in 1..Len(master_dataset.rows) : master_dataset.rows[i] = Row(1, 2)

\* the step is a pipeline run whose merge raised
MergeRaised == call'.op = "run_pipeline" /\ call'.stages = <<"merge">>

\* C25: when the merge of a pipeline run raises (a batch cannot be read, the
\* corpus cannot be written), the run ends with an error in its report and
\* without training, the persisted corpus is the one of before the run, and
\* every pending batch is still pending, none archived.
C25_FailedMergeKeepsCorpusAndBatches ==
    [][ MergeRaised =>
          /\ "error" \in DOMAIN call'.report
          /\ "model_trained" \notin DOMAIN call'.report
          /\ UNCHANGED <<versions, metadata>>
          /\ master_dataset' = master_dataset
          /\ new_dir' = new_dir
          /\ archive_dir' = archive_dir ]_vars

----------------------------------------------------------------------------
(* Claims about concurrent calls (checked under SpecConcurrent) *)

InProgress(p) == runs[p].pc # "idle"

\* C26: run_pipeline is not re-entered: two calls never have a stage in
\* progress at the same time, and two calls never give the same version
\* identifier to two candidates.
C26_RunsNeverOverlap ==
    \A p, q \in Procs :
        p # q =>
            /\ ~(InProgress(p) /\ InProgress(q))
            /\ (runs[p].version # None /\ runs[q].version # None) =>
                  runs[p].version # runs[q].version

----------------------------------------------------------------------------
(* Claims about ingestion and the corpus (checked under SpecData) *)

\* the step is a store_new_data call that returned
Stored == call'.op = "store_new_data" /\ ~call'.raised

\* C27: store_new_data never overwrites a pending batch: no file is at the path
\* it writes, any two batches stored have distinct paths (also two stored under
\* the same suggested name), and the call merges nothing: the corpus and the
\* archive are unchanged.
C27_IngestNeverOverwrites ==
    [][ Stored =>
          /\ new_dir[call'.path] = NoFile
          /\ \A i, j \in DOMAIN ingested' :
                i # j => ingested'[i].path # ingested'[j].path
          /\ master_dataset' = master_dataset
          /\ archive_dir' = archive_dir ]_vars

\* the files pending in ds
Pending(ds) == {f \in FileNames : ds.new_dir[f] # NoFile}

\* the state after the batch b, ingested under the name n at time t, has been
\* merged into ds with no step failing
MergedLater(ds, b, n, t) ==
    merge_and_clean_data(store_new_data(ds, b, n, t, {}).ds, {})

\* C29: when archiving fails in a merge, the corpus persisted is the merged
\* result, which the merge returns, and the batches not archived are still
\* pending, unchanged; and when a batch ingested afterwards is merged together
\* with them, the corpus holds the value of the later batch for each
\* identifier the later batch has a valid row for.
C29_ReprocessingIsHarmless ==
    \A F \in {{"archive_1"}, {"archive_2"}} :
        LET m == merge_and_clean_data(DS, F)
        IN (~m.raised /\ Pending(m.ds) # {}) =>
              /\ m.ds.master_dataset = m.ret
              /\ m.ret = Csv(clean_data(
                     (IF master_dataset = NoFile THEN <<>> ELSE master_dataset.rows)
                         \o Concat(new_dir, m.new_files)))
              /\ \A f \in Pending(m.ds) : m.ds.new_dir[f] = new_dir[f]
              /\ \A b \in Batches, n \in SuggestedNames, t \in now..MaxTime :
                    LET later == MergedLater(m.ds, b, n, t)
                    IN \A k \in DOMAIN b :
                          (IsLast(b, k) /\ Valid(b[k])) =>
                              b[k] \in Range(later.ret.rows)

\* the rows of the persisted corpus (none when no corpus is persisted)
CorpusRows == IF master_dataset = NoFile THEN <<>> ELSE master_dataset.rows

\* C30: a merge never loses an identifier: every identifier for which the
\* corpus, or a batch merged, has a row with all critical values present has a
\* row in the corpus after the merge; and every row of the corpus after the
\* merge has all critical values present.
C30_CorpusGrowsMonotonically ==
    [][ Merged =>
          LET out == master_dataset'.rows
          IN /\ \A i \in DOMAIN CorpusRows :
                   Valid(CorpusRows[i]) =>
                       \E k \in DOMAIN out :
                           out[k].customer_id = CorpusRows[i].customer_id
             /\ \A i \in DOMAIN MergeInput :
                   Valid(MergeInput[i]) =>
                       \E k \in DOMAIN out :
                           out[k].customer_id = MergeInput[i].customer_id
             /\ \A k \in DOMAIN out : Valid(out[k]) ]_vars

----------------------------------------------------------------------------
(* Claims about the manual entry point (checked under SpecPipeline) *)

\* C28: the manual retraining entry point makes exactly one pipeline run and
\* then reports the outcome of that run.
C28_ManualEntryRunsPipelineOnce ==
    call.op = "retrain_manual" =>
        /\ call.pipeline_runs = 1
        /\ ~call.raised
        /\ call.reported # None

----------------------------------------------------------------------------
(* The scheduler process in run_pipeline and an operator process in          *)
(* rollback.py, on the same directories. deploy_model and log_deployment     *)
(* hold no lock: the ledger file is read in one step and rewritten in        *)
(* another, and the steps of the two processes interleave (no step raises)   *)

MaxRollbacks == 1

Scheduler == 1
Operator == 2

\* a process in no call: what it read from the ledger, the entries it has yet
\* to log, the entries it has written so far, and the candidates validate_model
\* has rejected in its calls
Waiting ==
    [pc |-> "idle", version |-> None, outcome |-> None, against |-> None,
     log |-> NoFile, todo |-> <<>>, written |-> <<>>, calls |-> 0,
     rejected |-> {}]

InitManual ==
    /\ InitInitialized /\ InitNoData
    /\ now = 0
    /\ new_files = 0
    /\ backups = [t \in Times |-> NoBackup]
    /\ call = [op |-> "init"]
    /\ faulty = 0
    /\ displaced = None
    /\ runs = [p \in Procs |-> Waiting]

\* run_pipeline, lines 47-74: a pending batch is found and merged, and
\* train_model persists the candidate
TrainCandidate(outcome) ==
    /\ runs[Scheduler].pc = "idle"
    /\ new_files > 0
    /\ get_next_version(FS, {}) \in VersionIds
    /\ \E r \in {train_model(FS, outcome, now, {})} :
          /\ Install(r.fs)
          /\ runs' = [runs EXCEPT ![Scheduler].pc = "validate",
                                  ![Scheduler].version = r.version,
                                  ![Scheduler].outcome = outcome]
    /\ new_files' = 0
    /\ call' = [op |-> "train", proc |-> Scheduler]
    /\ UNCHANGED displaced
    /\ StepFrame

\* lines 76-80 and 97-100: validate_model reads the active slot; a rejected
\* candidate ends the call
ValidateCandidate ==
    /\ runs[Scheduler].pc = "validate"
    /\ \E val \in {validate_model(FS, runs[Scheduler].version, {})} :
          /\ runs' = [runs EXCEPT
                        ![Scheduler].pc = IF val.ret THEN "deploy" ELSE "idle",
                        ![Scheduler].against = val.report.current_version,
                        ![Scheduler].rejected =
                            IF val.ret THEN @ ELSE @ \cup {runs[Scheduler].version}]
          /\ call' = [op |-> "validate", proc |-> Scheduler, ret |-> val.ret]
    /\ UNCHANGED <<new_files, versions, metadata, active_model, active_metadata,
                   backups, deployment_log, displaced>>
    /\ StepFrame

\* the entry log_deployment will be asked to append
LogCall(action, meta) == [action |-> action, meta |-> meta]

\* deploy_model, lines 41-72: everything before the call of log_deployment
DeployFiles ==
    /\ runs[Scheduler].pc = "deploy"
    /\ \E d \in {deploy_model(FS, runs[Scheduler].version, now, {"log_deployed"})} :
          /\ Install(d.fs)
          /\ runs' = [runs EXCEPT
                        ![Scheduler].pc = IF d.ret THEN "log_read" ELSE "idle",
                        ![Scheduler].todo =
                            IF d.ret
                            THEN <<LogCall("deployed",
                                           d.fs.metadata[runs[Scheduler].version])>>
                            ELSE <<>>]
          /\ call' = [op |-> "deploy_files", proc |-> Scheduler, ret |-> d.ret,
                      overwritten |-> ActiveVersion(FS),
                      against |-> runs[Scheduler].against]
          /\ displaced' = Displaced(FS, d.ret)
    /\ UNCHANGED new_files
    /\ StepFrame

\* rollback.py, lines 46-51: rollback_model up to the first call of
\* log_deployment: the target is resolved and deploy_model writes the files
RollbackFiles(target_version) ==
    /\ runs[Operator].pc = "idle"
    /\ runs[Operator].calls < MaxRollbacks
    /\ \E r \in {rollback_model(FS, target_version, now,
                                {"log_deployed", "log_rollback"})} :
          /\ Install(r.fs)
          /\ runs' = [runs EXCEPT
                        ![Operator].pc = IF r.ret THEN "log_read" ELSE "idle",
                        ![Operator].version = r.target,
                        ![Operator].calls = @ + 1,
                        ![Operator].todo =
                            IF r.ret
                            THEN <<LogCall("deployed", r.fs.metadata[r.target]),
                                   LogCall("rollback", None)>>
                            ELSE <<>>]
          /\ call' = [op |-> "rollback_files", proc |-> Operator, ret |-> r.ret,
                      target |-> r.target]
          /\ displaced' = Displaced(FS, r.ret)
    /\ UNCHANGED new_files
    /\ StepFrame

\* log_deployment, lines 143-149: the ledger file is read
LogRead(p) ==
    /\ runs[p].pc = "log_read"
    /\ runs' = [runs EXCEPT ![p].pc = "log_write", ![p].log = deployment_log]
    /\ call' = [op |-> "log_read", proc |-> p]
    /\ UNCHANGED <<new_files, versions, metadata, active_model, active_metadata,
                   backups, deployment_log, displaced>>
    /\ StepFrame

\* log_deployment, lines 151-163: the entry is appended to what was read and
\* the ledger file is rewritten
LogWrite(p) ==
    /\ runs[p].pc = "log_write"
    /\ \E fs \in {log_deployment([FS EXCEPT !.deployment_log = runs[p].log],
                                 runs[p].version, Head(runs[p].todo).action,
                                 Head(runs[p].todo).meta, now, FALSE)} :
          /\ Install(fs)
          /\ runs' = [runs EXCEPT
                        ![p].pc = IF Tail(runs[p].todo) = <<>>
                                  THEN "idle" ELSE "log_read",
                        ![p].todo = Tail(@),
                        ![p].written =
                            Append(@, fs.deployment_log.deployments[
                                          Len(fs.deployment_log.deployments)])]
    /\ call' = [op |-> "log_write", proc |-> p]
    /\ UNCHANGED <<new_files, displaced>>
    /\ StepFrame

NextManual ==
    \/ Tick
    \/ StoreStep
    \/ \E o \in PipelineOutcomes : TrainCandidate(o)
    \/ ValidateCandidate
    \/ DeployFiles
    \/ \E v \in VersionIds \cup {None} : RollbackFiles(v)
    \/ \E p \in Procs : LogRead(p)
    \/ \E p \in Procs : LogWrite(p)

SpecManual == InitManual /\ [][NextManual]_vars

----------------------------------------------------------------------------
(* Claims about the scheduler and the operator (checked under SpecManual) *)

\* C31: the ledger writes of a manual rollback and of a pipeline deploy in
\* separate processes do not interleave: in every state, every entry either
\* process has appended is present in the ledger.
C31_NoLedgerEntryLost ==
    \A p \in Procs :
        \A i \in 1..Len(runs[p].written) :
            \E j \in 1..Len(Deployments(deployment_log)) :
                Deployments(deployment_log)[j] = runs[p].written[i]

\* C39: whenever run_pipeline deploys a candidate, the version in the active
\* slot when deploy_model overwrites it is the version validate_model compared
\* the candidate with, also when the operator's rollback runs in between.
C39_DeployOverwritesWhatWasValidatedAgainst ==
    [][ (call'.op = "deploy_files" /\ call'.ret)
            => ActiveVersion(FS) = runs[Scheduler].against ]_vars

----------------------------------------------------------------------------
(* Claims about the version store and the ledger (checked under Spec) *)

\* the versions whose persisted metadata record is flagged deployed
FlaggedDeployed == {v \in VersionIds : metadata[v] # NoFile /\ metadata[v].deployed}

\* C32: a version's persisted metadata record says deployed = true only if
\* that version is the one in the active slot, and at most one record is
\* flagged deployed.
C32_OnlyActiveVersionFlaggedDeployed ==
    /\ \A v \in FlaggedDeployed : ActiveVersion(FS) = v
    /\ Cardinality(FlaggedDeployed) <= 1

\* the version field of the last ledger entry (None on an empty ledger)
LastLedgerVersion ==
    IF Deployments(deployment_log) = <<>> THEN None
    ELSE Deployments(deployment_log)[Len(Deployments(deployment_log))].version

\* C33: from the initialized installation, after any sequence of run_pipeline,
\* deploy_model and rollback_model calls of one process, the version of the
\* last ledger entry is the version recorded in the active slot's metadata.
C33_LastLedgerEntryIsActiveVersion ==
    LastLedgerVersion = ActiveVersion(FS)

----------------------------------------------------------------------------
(* Claims about what the operator can make active (checked under SpecManual) *)

\* C34: the active slot only ever holds a validated version: no sequence of
\* run_pipeline runs and rollback calls, with or without a target version,
\* makes active a candidate that validate_model rejected.
C34_ActiveIsNeverARejectedCandidate ==
    ActiveVersion(FS) \notin runs[Scheduler].rejected

----------------------------------------------------------------------------
(* Claims about the version store (checked under Spec) *)

\* C35: in every reachable state, also when persisting a version failed
\* part-way, a version has an artifact exactly when it has a metadata record;
\* hence every version _get_next_version counts can be loaded by the
\* validator and deployed by the deployer.
C35_ArtifactsAndMetadataPaired ==
    /\ \A v \in VersionIds : (versions[v] = NoFile) <=> (metadata[v] = NoFile)
    /\ \A v \in PersistedVersions(FS) :
          /\ load_model_version(FS, v).model # None
          /\ deploy_model(FS, v, now, {}).ret

----------------------------------------------------------------------------
(* Claims about the runs that follow a failed run (checked under SpecPipeline) *)

\* the run c merged and then failed in train_model
TrainingFailedAfterMerge(c) ==
    /\ c.op = "run_pipeline"
    /\ "data_merged" \in DOMAIN c.report
    /\ "model_trained" \notin DOMAIN c.report
    /\ "error" \in DOMAIN c.report

\* C36: merged data is eventually trained on: when training failed in a run
\* whose merge persisted a corpus of rows and archived the batches, the next
\* run_pipeline call, no batch having arrived in between, trains a candidate
\* on the merged corpus.
C36_MergedDataIsTrainedOnNext ==
    [][ ( /\ TrainingFailedAfterMerge(call)
          /\ Pending(DS) = {}
          /\ master_dataset # NoFile /\ master_dataset.rows # <<>>
          /\ call'.op = "run_pipeline" )
        => /\ "model_trained" \in DOMAIN call'.report
           /\ call'.trained_on = master_dataset ]_vars

----------------------------------------------------------------------------------------------------------------------------------------
(* The scheduler over the files of the DataManager, where a store_new_data   *)
(* whose write fails can leave a file in data/new; no step of a run raises   *)
(* but for what the files hold                                               *)

NextBatches ==
    \/ Tick
    \/ \E rows \in PipelineBatches, F \in FaultSets(IngestFaults) :
          StoreNewDataFile(rows, None, F)
    \/ \E o \in PipelineOutcomes : RunPipelineOn(o, {})

SpecBatches == InitPipeline /\ [][NextBatches]_vars

\* the pending batches no read of a merge can parse
BadBatches(ds) == {f \in Pending(ds) : ds.new_dir[f] = EmptyCsv}

\* the batch stored second, without a suggested name
LaterBatch == FileName("upload", 1)

\* C37: one bad batch does not block later data: a batch ingested after a
\* batch that makes the merge fail is merged by some later run_pipeline call
\* without anyone touching the files. What a run does to the data files
\* depends on the data files alone, so this needs every run that finds the two
\* batches pending to change the data files: a run that leaves them as they
\* are is followed by runs that do the same.
C37_BadBatchDoesNotBlockLaterData ==
    [][ ( /\ call'.op = "run_pipeline"
          /\ LaterBatch \in Pending(DS) \ BadBatches(DS)
          /\ BadBatches(DS) # {} )
        => DS' # DS ]_vars

----------------------------------------------------------------------------
(* Claims about a failed drift computation (checked under SpecValidator) *)

\* C38: a failure while the drift against the active model is computed is
\* fail-safe: for every stored candidate compared with a loaded active model,
\* the drift score is 1.0, the drift check is recorded as failed, and
\* validate_model returns False with the recommendation REJECT and a reason
\* that cites the drift.
C38_DriftFailureRejects ==
    \A v \in VersionIds :
        (/\ versions[v] # NoFile /\ metadata[v] # NoFile
         /\ ActiveComplete) =>
            LET r == validate_model(FS, v, {"drift"})
            IN /\ r.ret = FALSE
               /\ r.report.drift_score = drift_on_error
               /\ ~r.report.checks.drift_acceptable
               /\ r.report.recommendation = "REJECT"
               /\ \E i \in DOMAIN r.report.reason :
                     r.report.reason[i] = "drift_exceeds_threshold"

\* C38 witness: a candidate that passes every other check, and whose
\* probabilities are those of the active model, has been rejected by a
\* validation whose drift computation failed
C38_Witness ==
    /\ Validated /\ ActiveComplete /\ ActiveLoaded
    /\ call.report.drift_score = drift_on_error
    /\ check_drift(versions[call.version], active_model, FALSE) = 0
    /\ call.report.checks.min_accuracy /\ call.report.checks.min_auc
    /\ call.report.checks.accuracy_improvement
    /\ call.report.checks.auc_improvement
    /\ ~call.report.checks.drift_acceptable
    /\ call.ret = FALSE /\ call.report.recommendation = "REJECT"

----------------------------------------------------------------------------
(* merge_and_clean_data in the scheduler process while the dashboard process *)
(* calls store_new_data: the merge lists data/new, then reads the files and  *)
(* writes the corpus, then moves the files it listed; a store can fall       *)
(* between any two of these (no step raises)                                 *)

\* the files of the DataManager with, in data/new, the listed files alone
Listed(ds, files) ==
    [ds EXCEPT !.new_dir = [f \in FileNames |->
                              IF \E i \in 1..Len(files) : files[i] = f
                              THEN ds.new_dir[f] ELSE NoFile]]

\* merge_and_clean_data, line 93: data/new is listed; with nothing to merge
\* the call returns what get_training_data returns
MergeList ==
    /\ runs[Scheduler].pc = "idle"
    /\ \E files \in {get_new_files(DS, {})} :
          /\ runs' = [runs EXCEPT ![Scheduler] =
                        IF files = <<>> THEN Idle
                        ELSE [pc |-> "merge_read", version |-> None,
                              outcome |-> None, files |-> files]]
          /\ InstallData(IF files = <<>> THEN get_training_data(DS, {}).ds ELSE DS)
          /\ call' = [op |-> "merge_list", files |-> files]
    /\ UNCHANGED <<now, new_files, versions, metadata, active_model,
                   active_metadata, backups, deployment_log, faulty, displaced,
                   ingested>>

\* lines 101-131: the master and the listed files are read, and the cleaned
\* concatenation is written as the master dataset
MergeWrite ==
    /\ runs[Scheduler].pc = "merge_read"
    /\ \E m \in {merge_and_clean_data(Listed(DS, runs[Scheduler].files),
                                      {"archive_1"})} :
          /\ master_dataset' = m.ds.master_dataset
          /\ runs' = [runs EXCEPT ![Scheduler] =
                        [pc |-> "merge_archive", version |-> None,
                         outcome |-> None, files |-> runs[Scheduler].files,
                         read |-> [i \in 1..Len(runs[Scheduler].files) |->
                                     new_dir[runs[Scheduler].files[i]]]]]
          /\ call' = [op |-> "merge_write", ret |-> m.ret]
    /\ UNCHANGED <<now, new_files, versions, metadata, active_model,
                   active_metadata, backups, deployment_log, faulty, displaced,
                   new_dir, archive_dir, sample_data, ingested>>

\* lines 133-136: _archive_processed_files moves the files that were listed
MergeArchive ==
    /\ runs[Scheduler].pc = "merge_archive"
    /\ InstallData(archive_processed_files(DS, runs[Scheduler].files, 1, {}))
    /\ runs' = [runs EXCEPT ![Scheduler] = Idle]
    /\ call' = [op |-> "merge_archive", files |-> runs[Scheduler].files,
                read |-> runs[Scheduler].read]
    /\ UNCHANGED <<now, new_files, versions, metadata, active_model,
                   active_metadata, backups, deployment_log, faulty, displaced,
                   ingested>>

NextIngest ==
    \/ Tick
    \/ \E rows \in PipelineBatches : StoreNewDataFile(rows, None, {})
    \/ MergeList
    \/ MergeWrite
    \/ MergeArchive

SpecIngest == InitPipeline /\ [][NextIngest]_vars

\* C40: a batch stored by the dashboard while merge_and_clean_data is in
\* progress is never lost: a file is moved to the archive only with the rows
\* the merge read from it and wrote into the corpus, and every other pending
\* file stays pending as it is.
C40_IngestDuringMergeIsNeverLost ==
    [][ call'.op = "merge_archive" =>
          /\ \A i \in 1..Len(call'.files) :
                archive_dir'[call'.files[i]] = call'.read[i]
          /\ \A f \in Pending(DS) :
                (\A i \in 1..Len(call'.files) : call'.files[i] # f)
                    => new_dir'[f] = new_dir[f] ]_vars

====
